---- MODULE Spec2Model ----
(***************************************************************************)
(* Model of ros2_live_preview (src/src/main.rs): a ROS 2 subscription      *)
(* whose items are decoded (PreviewImage::to_image) and shown in a         *)
(* show_image window by the for_each closure of live_preview.             *)
(*                                                                         *)
(* Three threads of control are modelled:                                  *)
(*   - the transport (items arriving in the subscription's history cache), *)
(*   - the loop task run by smol::block_on (one closure call per item),    *)
(*   - the show_image context thread, which runs the functions posted to   *)
(*     it by window.run_function / window.set_image in posting order.      *)
(***************************************************************************)
EXTENDS Integers, Sequences, FiniteSets, TLC

VARIABLES
    T,          \* the message type live_preview is instantiated with
    build,      \* "debug" (overflow checks on) or "release" (wrapping)
    queue,      \* received, not yet consumed items of chatter_subscription
    arrived,    \* number of items the transport has delivered so far
    ended,      \* the subscription stream has ended (transport shut down)
    stop,       \* an external stop request has been raised
    pc,         \* position of the loop task
    msg,        \* the message of the item being processed
    img,        \* let img = msg.to_image()  (line 116)
    window,     \* the show_image window: visibility, inner size, image
    posted,     \* functions posted to the context thread, oldest first
    reply,      \* result handed back to a blocked window.set_image call
    calls,      \* renderer operations applied to the window, in order
    taken,      \* items the closure has been called with, in order
    logged,     \* lines written by eprintln! (line 129)
    setup_error, \* the setup step whose result was an Err, or "none"
    decodes     \* calls of msg.to_image() made by the running closure call

vars == <<decodes, setup_error, T, build, queue, arrived, ended, stop, pc, msg, img, window,
          posted, reply, calls, taken, logged>>

----------------------------------------------------------------------------
(* Bounds of the model *)

\* number of items the transport delivers in one run
MaxArrivals == 4
\* largest width and height of the raw messages enumerated for to_image
MaxW == 2
MaxH == 2

(* Program constants *)

\* policy::History::KeepLast { depth: 2 }
KeepLastDepth == 2
\* Duration::from_millis(100)
MaxBlockingMillis == 100
\* let window_w = 1280
window_w == 1280
\* bytes per pixel of RgbImage (Rgb<u8>)
Channels == 3

\* u32 values are held as two 16-bit halves <<hi, lo>> (hi * 2^16 + lo):
\* TLC's integers stop short of 2^32.
Half == 65536

topic_name == "ssbu_c"

----------------------------------------------------------------------------
(* Message schema (lines 12-35).  A byte buffer of a RawImage is a        *)
(* sequence of bytes.  A CompressedImage buffer is described by what the   *)
(* image crate finds in it: the container its magic bytes announce (or     *)
(* "none"), whether the body decodes, and the picture it holds.            *)

\* Pixels (three bytes each) the enumerated raw buffers are made of.
Pixels == { <<0, 128, 255>>, <<255, 0, 7>> }

RawMsg(enc, w, h, st, d) ==
    [variant |-> "Image", encoding |-> enc, width |-> w, height |-> h,
     step |-> st, data |-> d]

CompressedMsg(fmt, magic, intact, color, w, h) ==
    [variant |-> "CompressedImage", format |-> fmt, magic |-> magic,
     intact |-> intact, color |-> color, width |-> w, height |-> h]

NoMsg == [variant |-> "none"]

\* fn as_str() of the two impls
as_str(variant) == variant

----------------------------------------------------------------------------
(* Frame decoder *)

Panic == [tag |-> "panic"]
NoImg == [tag |-> "none"]

DynamicImage(color, w, h, d) ==
    [tag |-> "img", color |-> color, width |-> w, height |-> h, data |-> d]

\* RgbImage::from_raw(width, height, buf): None unless the buffer holds at
\* least width * height * 3 bytes.
from_raw_fits(w, h, d) == w * h * Channels <= Len(d)

\* reverse_index as it would be with the pixel rotated (p.0.rotate_left(1))
\* instead of reversed.
reverse_index_rotate(i) == LET k == (i - 1) \div Channels
                               c == (i - 1) % Channels
                           IN  k * Channels + ((c + 1) % Channels) + 1

\* p.0.reverse() on the i-th byte of a buffer of packed 3-byte pixels: byte
\* c of pixel k comes from byte 2-c of the same pixel.
reverse_index(i) == LET k == (i - 1) \div Channels
                        c == (i - 1) % Channels
                    IN  k * Channels + (Channels - 1 - c) + 1

\* bgr.pixels_mut().for_each(|p| p.0.reverse()): the first w*h pixels are
\* reversed in place, bytes past them (if any) are left as they are.
pixels_reverse(w, h, d) ==
    [i \in 1..Len(d) |->
        IF i <= w * h * Channels THEN d[reverse_index(i)] ELSE d[i]]

RawImage_to_image(m) ==
    IF m.encoding = "bgr8"
    THEN IF from_raw_fits(m.width, m.height, m.data)
         THEN DynamicImage("Rgb8", m.width, m.height,
                           pixels_reverse(m.width, m.height, m.data))
         ELSE Panic
    ELSE Panic

\* CompressedImage_to_image as it would be with the decoded picture
\* converted to 8-bit RGB before it is returned.
CompressedImage_to_image_rgb8(m) ==
    IF m.magic = "none" \/ ~m.intact
    THEN Panic
    ELSE DynamicImage("Rgb8", m.width, m.height, <<>>)

\* ImageReader::new(..).with_guessed_format().unwrap().decode().unwrap():
\* decode() fails when no format was guessed or the body does not decode;
\* otherwise the picture comes back in the container's own colour type.
CompressedImage_to_image(m) ==
    IF m.magic = "none" \/ ~m.intact
    THEN Panic
    ELSE DynamicImage(m.color, m.width, m.height, <<>>)

to_image(m) ==
    IF m.variant = "Image" THEN RawImage_to_image(m)
    ELSE CompressedImage_to_image(m)

----------------------------------------------------------------------------
Init ==
    /\ T \in {"Image", "CompressedImage"}
    /\ build \in {"debug", "release"}
    /\ queue = <<>>
    /\ arrived = 0
    /\ ended = FALSE
    /\ stop = FALSE
    /\ pc = "await"
    /\ msg = NoMsg
    /\ img = NoImg
    /\ window = [visible |-> FALSE, inner_size |-> <<>>, image |-> NoImg]
    /\ posted = <<>>
    /\ reply = "none"
    /\ calls = <<>>
    /\ taken = <<>>
    /\ logged = 0
    /\ setup_error = "none"
    /\ decodes = 0

----------------------------------------------------------------------------
(* Topic subscription (lines 85-102) *)

\* reliable_qos as it would be with a history one sample deeper.
reliable_qos_deeper ==
    [history     |-> [kind |-> "KeepLast", depth |-> KeepLastDepth + 1],
     reliability |-> [kind |-> "Reliable",
                      max_blocking_time |-> MaxBlockingMillis],
     durability  |-> "Volatile"]

\* QosPolicyBuilder::new().history(..).reliability(..).durability(..).build()
reliable_qos ==
    [history     |-> [kind |-> "KeepLast", depth |-> KeepLastDepth],
     reliability |-> [kind |-> "Reliable",
                      max_blocking_time |-> MaxBlockingMillis],
     durability  |-> "Volatile"]

\* node.create_subscription::<T>(&chatter_topic, Some(reliable_qos)): the
\* policies given with the subscription are the ones it runs under.
chatter_subscription == [type |-> T, qos |-> reliable_qos]

\* The history cache of the subscription under its History policy: a
\* sample arriving at a full KeepLast cache replaces the oldest one.
history_insert(q, item) ==
    LET h == chatter_subscription.qos.history
    IN  IF h.kind = "KeepLast" /\ Len(q) >= h.depth
        THEN Append(Tail(q), item)
        ELSE Append(q, item)

Ok(m) == [res |-> "Ok", msg |-> m]
Err   == [res |-> "Err", msg |-> NoMsg]

\* Raw messages the transport may deliver: a packed 2x1 and a packed 1x2
\* picture, an encoding other than "bgr8", a buffer one byte short, a
\* picture of width 0, and a padded picture (step > width * 3) whose buffer
\* covers width*height*3 bytes but not height*step.
RawSamples ==
    { RawMsg("bgr8", 2, 1, 6, <<0, 255, 255, 255, 0, 0>>),
      RawMsg("bgr8", 1, 2, 3, <<255, 0, 0, 0, 0, 255>>),
      RawMsg("rgb8", 1, 1, 3, <<0, 0, 255>>),
      RawMsg("bgr8", 2, 1, 6, <<0, 255, 255, 255, 0>>),
      RawMsg("bgr8", 0, 1, 0, <<>>),
      RawMsg("bgr8", 1, 2, 4, <<255, 0, 0, 0, 0, 255, 0>>) }

\* Compressed messages the transport may deliver: two intact colour
\* pictures of different size and aspect ratio, an intact grayscale, an
\* intact 16-bit and a very tall picture, a truncated file and bytes with
\* no known magic.
CompressedSamples ==
    { CompressedMsg("jpeg", "jpeg", TRUE, "Rgb8", 640, 480),
      CompressedMsg("jpeg", "jpeg", TRUE, "Rgb8", 640, 360),
      CompressedMsg("png", "png", TRUE, "L8", 640, 480),
      CompressedMsg("png", "png", TRUE, "Rgb16", 640, 480),
      CompressedMsg("png", "png", TRUE, "Rgb8", 2, 4000000),
      CompressedMsg("jpeg", "jpeg", FALSE, "Rgb8", 640, 480),
      CompressedMsg("png", "none", FALSE, "Rgb8", 0, 0) }

Items == {Err} \cup {Ok(m) : m \in IF T = "Image" THEN RawSamples
                                   ELSE CompressedSamples}

\* The process is running: the loop task has neither returned nor panicked.
Alive == pc \notin {"returned", "aborted"}

\* chatter_subscription exists: setup is past create_subscription.
Subscribed == pc \notin {"context", "node", "topic", "subscription"}

\* The transport hands one more item to the subscription.
Arrive(item) ==
    /\ Alive
    /\ Subscribed
    /\ ~ended
    /\ arrived < MaxArrivals
    /\ queue' = history_insert(queue, item)
    /\ arrived' = arrived + 1
    /\ UNCHANGED <<decodes, setup_error, T, build, ended, stop, pc, msg, img, window, posted,
                   reply, calls, taken, logged>>

\* The transport shuts down: the stream yields what it still holds, then
\* ends.
EndOfStream ==
    /\ Alive
    /\ Subscribed
    /\ ~ended
    /\ ended' = TRUE
    /\ UNCHANGED <<decodes, setup_error, T, build, queue, arrived, stop, pc, msg, img, window,
                   posted, reply, calls, taken, logged>>

\* Somebody outside asks the preview to stop.  live_preview(topic_name)
\* takes no token and the loop polls nothing but the stream, so no action
\* of the loop reads `stop`.
RaiseStop ==
    /\ Alive
    /\ ~stop
    /\ stop' = TRUE
    /\ UNCHANGED <<decodes, setup_error, T, build, queue, arrived, ended, pc, msg, img, window,
                   posted, reply, calls, taken, logged>>

----------------------------------------------------------------------------
(* Preview loop: the closure of for_each (lines 113-131) *)

\* RecvErr as it would be had the item been unwrapped instead of matched.
RecvErr_unwrap ==
    /\ pc = "await"
    /\ queue # <<>>
    /\ Head(queue).res = "Err"
    /\ queue' = Tail(queue)
    /\ taken' = Append(taken, Head(queue))
    /\ pc' = "aborted"
    /\ UNCHANGED <<decodes, setup_error, T, build, arrived, ended, stop, msg, img, window,
                   posted, reply, calls, logged>>

\* Err(e) => eprintln!("Receive request error: {:?}", e)
RecvErr ==
    /\ pc = "await"
    /\ queue # <<>>
    /\ Head(queue).res = "Err"
    /\ queue' = Tail(queue)
    /\ taken' = Append(taken, Head(queue))
    /\ logged' = logged + 1
    /\ UNCHANGED <<decodes, setup_error, T, build, arrived, ended, stop, pc, msg, img, window,
                   posted, reply, calls>>

\* Ok((msg, _info)) => { let img = msg.to_image(); ...
RecvOk ==
    /\ pc = "await"
    /\ queue # <<>>
    /\ Head(queue).res = "Ok"
    /\ queue' = Tail(queue)
    /\ taken' = Append(taken, Head(queue))
    /\ msg' = Head(queue).msg
    /\ img' = to_image(Head(queue).msg)
    /\ pc' = IF to_image(Head(queue).msg).tag = "panic" THEN "aborted"
             ELSE "geometry"
    /\ decodes' = 1
    /\ UNCHANGED <<setup_error, T, build, arrived, ended, stop, window, posted, reply,
                   calls, logged>>

\* img.height() * window_w as an unbounded number, in halves: the high
\* half exceeds 16 bits exactly when the product does not fit a u32.
product_hi(h) == (h \div Half) * window_w + ((h % Half) * window_w) \div Half
product_lo(h) == ((h % Half) * window_w) % Half

mul_overflows(h) == product_hi(h) >= Half

\* <<hi, lo>> / w by long division.
div_halves(hi, lo, w) == << hi \div w, ((hi % w) * Half + lo) \div w >>

\* img.height() * window_w / img.width() on u32: the product is formed
\* first; when it does not fit it panics in a build with overflow checks
\* and wraps in one without; the division panics on a zero width.
geometry_panics(image) ==
    \/ build = "debug" /\ mul_overflows(image.height)
    \/ image.width = 0

window_h(image) ==
    div_halves(product_hi(image.height) % Half, product_lo(image.height),
               image.width)

InitFn(size) == [fn |-> "init", size |-> size, name |-> "", image |-> NoImg]
SetImageFn(name, image) ==
    [fn |-> "set_image", size |-> <<>>, name |-> name, image |-> image]

\* let window_w = 1280; let window_h = ...; window.run_function(move |w| ..)
\* run_function posts the closure and returns without waiting for it.
PostInit ==
    /\ pc = "geometry"
    /\ IF geometry_panics(img)
       THEN /\ pc' = "aborted"
            /\ UNCHANGED posted
       ELSE /\ posted' = Append(posted, InitFn(<<window_w, window_h(img)>>))
            /\ pc' = "set_image"
    /\ UNCHANGED <<decodes, setup_error, T, build, queue, arrived, ended, stop, msg, img, window,
                   reply, calls, taken, logged>>

\* SetImage as it would be if window.set_image handed the bitmap over the
\* way run_function does, without waiting for the context thread.
SetImage_nowait ==
    /\ pc = "set_image"
    /\ IF to_image(msg).tag = "panic"
       THEN /\ pc' = "aborted"
            /\ UNCHANGED posted
       ELSE /\ posted' = Append(posted, SetImageFn(topic_name, to_image(msg)))
            /\ pc' = "await"
    /\ decodes' = decodes + 1
    /\ UNCHANGED <<setup_error, T, build, queue, arrived, ended, stop, msg,
                   img, window, reply, calls, taken, logged>>

\* window.set_image(topic_name, msg.to_image()): the message is decoded a
\* second time, the call posts the bitmap and blocks for the result.
SetImage ==
    /\ pc = "set_image"
    /\ IF to_image(msg).tag = "panic"
       THEN /\ pc' = "aborted"
            /\ UNCHANGED posted
       ELSE /\ posted' = Append(posted, SetImageFn(topic_name, to_image(msg)))
            /\ pc' = "set_image_wait"
    /\ decodes' = decodes + 1
    /\ UNCHANGED <<setup_error, T, build, queue, arrived, ended, stop, msg, img, window,
                   reply, calls, taken, logged>>

\* ... .unwrap(); } : the closure ends, msg and img are dropped.
SetImageReturn ==
    /\ pc = "set_image_wait"
    /\ reply # "none"
    /\ pc' = IF reply = "ok" THEN "await" ELSE "aborted"
    /\ reply' = "none"
    /\ msg' = NoMsg
    /\ img' = NoImg
    /\ decodes' = 0
    /\ UNCHANGED <<setup_error, T, build, queue, arrived, ended, stop, window, posted,
                   calls, taken, logged>>

\* smol::block_on(subscription_stream) returns once the stream has ended
\* and every item it yielded has been passed to the closure.
StreamDone ==
    /\ pc = "await"
    /\ queue = <<>>
    /\ ended
    /\ pc' = "returned"
    /\ UNCHANGED <<decodes, setup_error, T, build, queue, arrived, ended, stop, msg, img, window,
                   posted, reply, calls, taken, logged>>

----------------------------------------------------------------------------
(* The window, on the show_image context thread *)

Call(op, size, image) == [op |-> op, size |-> size, image |-> image]

\* Pixel layouts show_image takes from an image::DynamicImage; any other
\* makes set_image return an error.
renderer_accepts(color) == color \in {"L8", "La8", "Rgb8", "Rgba8"}

\* RunFunction as it would be if the context thread ran the newest posted
\* function first.
RunFunction_newest ==
    /\ Alive
    /\ posted # <<>>
    /\ posted' = SubSeq(posted, 1, Len(posted) - 1)
    /\ LET f == posted[Len(posted)] IN
       IF f.fn = "init"
       THEN /\ IF window.image.tag = "none"
               THEN /\ window' = [window EXCEPT !.inner_size = f.size,
                                                !.visible = TRUE]
                    /\ calls' = calls \o
                         << Call("set_inner_size", f.size, NoImg),
                            Call("set_visible", <<>>, NoImg) >>
               ELSE UNCHANGED <<window, calls>>
            /\ UNCHANGED reply
       ELSE IF renderer_accepts(f.image.color)
            THEN /\ window' = [window EXCEPT !.image = f.image]
                 /\ calls' = Append(calls, Call("set_image", <<>>, f.image))
                 /\ reply' = "ok"
            ELSE /\ reply' = "err"
                 /\ UNCHANGED <<window, calls>>
    /\ UNCHANGED <<decodes, setup_error, T, build, queue, arrived, ended, stop, pc, msg, img,
                   taken, logged>>

\* The context thread runs the oldest posted function.
\*   init:      if w.image_info().is_none() { w.set_inner_size(..);
\*                                            w.set_visible(true); }
\*   set_image: replaces the window's image and unblocks the caller.
RunFunction ==
    /\ Alive
    /\ posted # <<>>
    /\ posted' = Tail(posted)
    /\ LET f == Head(posted) IN
       IF f.fn = "init"
       THEN /\ IF window.image.tag = "none"
               THEN /\ window' = [window EXCEPT !.inner_size = f.size,
                                                !.visible = TRUE]
                    /\ calls' = calls \o
                         << Call("set_inner_size", f.size, NoImg),
                            Call("set_visible", <<>>, NoImg) >>
               ELSE UNCHANGED <<window, calls>>
            /\ UNCHANGED reply
       ELSE IF renderer_accepts(f.image.color)
            THEN /\ window' = [window EXCEPT !.image = f.image]
                 /\ calls' = Append(calls, Call("set_image", <<>>, f.image))
                 /\ reply' = "ok"
            ELSE /\ reply' = "err"
                 /\ UNCHANGED <<window, calls>>
    /\ UNCHANGED <<decodes, setup_error, T, build, queue, arrived, ended, stop, pc, msg, img,
                   taken, logged>>

----------------------------------------------------------------------------
live_preview ==
    \/ RecvErr
    \/ RecvOk
    \/ PostInit
    \/ SetImage
    \/ SetImageReturn
    \/ StreamDone

Next ==
    \/ \E item \in Items : Arrive(item)
    \/ EndOfStream
    \/ RaiseStop
    \/ live_preview
    \/ RunFunction

Spec == Init /\ [][Next]_vars

----------------------------------------------------------------------------
(* Setup (lines 77-109): every step returns a Result that is unwrapped.   *)

\* <step>(..).unwrap(): go on to `next` on Ok, panic on Err.
unwrap_step(step, next) ==
    /\ pc = step
    /\ \E ok \in BOOLEAN :
          IF ok THEN pc' = next /\ UNCHANGED setup_error
          ELSE pc' = "aborted" /\ setup_error' = step
    /\ UNCHANGED <<decodes, T, build, queue, arrived, ended, stop, msg, img,
                   window, posted, reply, calls, taken, logged>>

\* ros2_client::Context::new().unwrap()
Context_new == unwrap_step("context", "node")

\* context.new_node(..).unwrap()
new_node == unwrap_step("node", "topic")

\* node.create_topic(..).unwrap()
create_topic == unwrap_step("topic", "subscription")

\* node.create_subscription::<T>(&chatter_topic, Some(reliable_qos)).unwrap()
create_subscription == unwrap_step("subscription", "window")

\* create_window as it would be with the error dropped instead of
\* unwrapped: the loop starts without a window.
create_window_ignored ==
    /\ pc = "window"
    /\ pc' = "await"
    /\ \E ok \in BOOLEAN :
          setup_error' = IF ok THEN setup_error ELSE "window"
    /\ UNCHANGED <<decodes, T, build, queue, arrived, ended, stop, msg, img,
                   window, posted, reply, calls, taken, logged>>

\* create_window(topic_name, options).unwrap(), the window starting hidden
create_window == unwrap_step("window", "await")

setup ==
    \/ Context_new
    \/ new_node
    \/ create_topic
    \/ create_subscription
    \/ create_window

\* The process from main(): live_preview::<CompressedImage>(topic_name),
\* nothing set up yet.
MainInit ==
    /\ T = "CompressedImage"
    /\ build \in {"debug", "release"}
    /\ queue = <<>>
    /\ arrived = 0
    /\ ended = FALSE
    /\ stop = FALSE
    /\ pc = "context"
    /\ msg = NoMsg
    /\ img = NoImg
    /\ window = [visible |-> FALSE, inner_size |-> <<>>, image |-> NoImg]
    /\ posted = <<>>
    /\ reply = "none"
    /\ calls = <<>>
    /\ taken = <<>>
    /\ logged = 0
    /\ setup_error = "none"
    /\ decodes = 0

MainNext == setup \/ Next

MainSpec == MainInit /\ [][MainNext]_vars

----------------------------------------------------------------------------
(* to_image of a raw message on its own: every buffer of whole pixels for  *)
(* the sizes up to MaxW x MaxH, the same one byte short and one byte long, *)
(* under both a supported and an unsupported encoding, with rows declared  *)
(* packed (step = width * 3) and, for a width above 0, padded by a byte.   *)

Flatten(ps) ==
    [i \in 1..(Channels * Len(ps)) |->
        ps[((i - 1) \div Channels) + 1][((i - 1) % Channels) + 1]]

Packed(w, h) == { Flatten(ps) : ps \in [1..(w * h) -> Pixels] }

Buffers(w, h) ==
    Packed(w, h)
      \cup { SubSeq(d, 1, Len(d) - 1) : d \in {e \in Packed(w, h) : Len(e) > 0} }
      \cup { Append(d, 9) : d \in Packed(w, h) }

DecodeInputs ==
    UNION { UNION { { RawMsg(enc, w, h, w * Channels + pad, d) :
                        enc \in {"bgr8", "rgb8"},
                        pad \in IF w = 0 THEN {0} ELSE {0, 1},
                        d \in Buffers(w, h) }
                    : w \in 0..MaxW }
            : h \in 0..MaxH }

DecodeInit ==
    /\ T = "Image"
    /\ build = "release"
    /\ queue = <<>>
    /\ arrived = 0
    /\ ended = FALSE
    /\ stop = FALSE
    /\ pc = "decode"
    /\ msg \in DecodeInputs
    /\ img = NoImg
    /\ window = [visible |-> FALSE, inner_size |-> <<>>, image |-> NoImg]
    /\ posted = <<>>
    /\ reply = "none"
    /\ calls = <<>>
    /\ taken = <<>>
    /\ logged = 0
    /\ setup_error = "none"
    /\ decodes = 0

\* msg.to_image()
Decode ==
    /\ pc = "decode"
    /\ img' = to_image(msg)
    /\ pc' = "decoded"
    /\ decodes' = decodes + 1
    /\ UNCHANGED <<setup_error, T, build, queue, arrived, ended, stop, msg, window,
                   posted, reply, calls, taken, logged>>

DecodeSpec == DecodeInit /\ [][Decode]_vars

\* The loop task and the context thread each run whenever they can; the
\* transport and the outside world are under no obligation.
LiveSpec == Spec /\ WF_vars(live_preview) /\ WF_vars(RunFunction)

----------------------------------------------------------------------------
(* Vocabulary of the properties *)

IsSetImage(c) == c.op = "set_image"
IsResize(c)   == c.op = "set_inner_size"
IsShow(c)     == c.op = "set_visible"

NSetImage == Len(SelectSeq(calls, IsSetImage))
NResize   == Len(SelectSeq(calls, IsResize))
NShow     == Len(SelectSeq(calls, IsShow))

\* The closure has just been called with the item at the head of the queue.
TakesHead == pc = "await" /\ queue # <<>> /\ taken' # taken

\* The item makes no renderer call, changes no state of the window and
\* leaves the loop waiting for the next item.
SkippedStep ==
    /\ pc' = "await"
    /\ posted' = posted
    /\ calls' = calls
    /\ window' = window
    /\ reply' = reply
    /\ queue' = Tail(queue)

----------------------------------------------------------------------------
\* C1: an item that is a transport error is logged, makes no renderer call
\* and no state change, and leaves the loop waiting for the next item; at
\* no position in the sequence does it end the loop.
C1_TransportErrorSkipped ==
    [][ (TakesHead /\ Head(queue).res = "Err")
          => (SkippedStep /\ logged' = logged + 1) ]_vars

\* A transport error taken between two frames, both of them shown.
C1_Witness ==
    /\ Len(taken) = 3
    /\ taken[1].res = "Ok" /\ taken[2].res = "Err" /\ taken[3].res = "Ok"
    /\ logged = 1
    /\ NSetImage = 2
    /\ pc = "await"

\* C2: a raw message whose encoding is not "bgr8" does not crash the loop:
\* the frame is skipped without a renderer call and the loop goes on to the
\* next item.
C2_UnsupportedEncodingSkipped ==
    [][ (/\ TakesHead
         /\ Head(queue).res = "Ok"
         /\ Head(queue).msg.variant = "Image"
         /\ Head(queue).msg.encoding # "bgr8")
          => SkippedStep ]_vars

\* C3: a compressed message whose buffer is malformed (no container
\* detected, or detected and not decodable) fails as a per-message error:
\* no renderer call, and the loop goes on to the next item.
C3_MalformedCompressedSkipped ==
    [][ (/\ TakesHead
         /\ Head(queue).res = "Ok"
         /\ Head(queue).msg.variant = "CompressedImage"
         /\ (Head(queue).msg.magic = "none" \/ ~Head(queue).msg.intact))
          => SkippedStep ]_vars

\* The item carries a message that to_image turns into a bitmap.
Decodes(item) == item.res = "Ok" /\ to_image(item.msg).tag = "img"

\* The item carries a message that cannot be decoded: a raw message of an
\* unsupported encoding, or a compressed one that is malformed.
Undecodable(item) ==
    /\ item.res = "Ok"
    /\ \/ item.msg.variant = "Image" /\ item.msg.encoding # "bgr8"
       \/ /\ item.msg.variant = "CompressedImage"
          /\ (item.msg.magic = "none" \/ ~item.msg.intact)

\* The item carries a valid frame: it decodes to an 8-bit RGB bitmap of
\* non-zero width whose geometry fits 32 bits.
ValidFrame(item) ==
    /\ Decodes(item)
    /\ to_image(item.msg).color = "Rgb8"
    /\ to_image(item.msg).width >= 1
    /\ ~mul_overflows(to_image(item.msg).height)

\* The closure has finished with every item it was called with.
ItemsDone == pc \in {"await", "returned", "aborted"}

\* C4: the transition Uninitialized -> Active happens exactly once, on the
\* first successfully decoded frame: never more than one resize and one
\* show; the surface stays hidden while no frame has been decoded; and once
\* the loop is through with an item that decoded, the one resize and the
\* one show have happened.
C4_TransitionExactlyOnce ==
    /\ NResize <= 1
    /\ NShow <= 1
    /\ ((\A i \in 1..Len(taken) : ~Decodes(taken[i]))
          => (~window.visible /\ NResize = 0 /\ NShow = 0))
    /\ ((ItemsDone /\ \E i \in 1..Len(taken) : Decodes(taken[i]))
          => (window.visible /\ NResize = 1 /\ NShow = 1))

\* What holds of the transition in every run: at most one resize and one
\* show, none while no frame has been decoded, and both done once a bitmap
\* has been set; a later frame of other dimensions leaves the size alone.
TransitionAtMostOnce ==
    /\ NResize <= 1
    /\ NShow <= 1
    /\ NResize = NShow
    /\ window.visible = (NShow = 1)
    /\ ((\A i \in 1..Len(taken) : ~Decodes(taken[i])) => NResize = 0)
    /\ (NSetImage >= 1 => NResize = 1 /\ calls[1].op = "set_inner_size")
    /\ (NResize = 1 => window.inner_size = calls[1].size)

\* The renderer calls expected for the items taken: nothing
\* while no valid frame came, else one resize and one show for the first
\* valid frame, then one set_image per valid frame.
ExpectedCalls(items) ==
    LET v == SelectSeq(items, ValidFrame)
    IN  IF v = <<>> THEN <<>>
        ELSE << Call("set_inner_size",
                     <<window_w, window_h(to_image(v[1].msg))>>, NoImg),
                Call("set_visible", <<>>, NoImg) >>
             \o [i \in 1..Len(v) |-> Call("set_image", <<>>, to_image(v[i].msg))]

\* C5: for a sequence mixing transport errors, undecodable messages and
\* valid frames the process does not terminate, and the renderer calls are
\* one resize and show followed by one set_image per valid frame, the
\* surface keeping the geometry of the first.
C5_EndToEnd ==
    (\A i \in 1..Len(taken) :
        taken[i].res = "Err" \/ Undecodable(taken[i]) \/ ValidFrame(taken[i]))
      => /\ pc # "aborted"
         /\ (pc = "await" => calls = ExpectedCalls(taken))

\* The pixel layout of the picture a message holds: packed 3-byte pixels
\* for a raw message, the container's own for a compressed one.
HeldLayout(m) == IF m.variant = "Image" THEN "Rgb8" ELSE m.color

----------------------------------------------------------------------------
\* C7: a raw "bgr8" message with a buffer of exactly width x height x 3
\* bytes decodes to a bitmap of the same width and height whose pixel at
\* every (x, y) is the input pixel with its first and third channel
\* swapped and the middle one kept; the channel-order transform applied to
\* its own result gives back the original buffer.
C7_Bgr8ChannelSwap ==
    (/\ pc = "decoded"
     /\ msg.encoding = "bgr8"
     /\ Len(msg.data) = msg.width * msg.height * 3)
      => /\ img.tag = "img"
         /\ img.color = "Rgb8"
         /\ img.width = msg.width
         /\ img.height = msg.height
         /\ Len(img.data) = Len(msg.data)
         /\ \A x \in 0..(msg.width - 1) : \A y \in 0..(msg.height - 1) :
               LET b == (y * msg.width + x) * 3
               IN  /\ img.data[b + 1] = msg.data[b + 3]
                   /\ img.data[b + 2] = msg.data[b + 2]
                   /\ img.data[b + 3] = msg.data[b + 1]
         /\ pixels_reverse(msg.width, msg.height, img.data) = msg.data

\* A 2x1 picture whose two pixels differ has been decoded, and the swap
\* changed the buffer.
C7_Witness ==
    /\ pc = "decoded"
    /\ msg.encoding = "bgr8"
    /\ msg.width = 2 /\ msg.height = 1
    /\ msg.data = <<0, 128, 255, 255, 0, 7>>
    /\ img.tag = "img"
    /\ img.data = <<255, 128, 0, 7, 0, 255>>

C9_StopEndsLoop == (stop /\ Alive) ~> ~Alive

\* C10: the loop runs until the stream ends: it never returns while the
\* stream has not ended or still holds an item, and once the stream has
\* ended every item is processed and the loop returns, so that a loop that
\* can take no further step after the end has returned.
C10_RunsUntilStreamEnds ==
    /\ (pc = "returned" => (ended /\ queue = <<>>))
    /\ (ended => (pc = "returned" \/ ENABLED (live_preview \/ RunFunction)))

\* What holds of the end of the loop in every run: it returns only after
\* the stream has ended and every item it yielded has been taken, and it
\* is only a panic that keeps it from returning after the end.
ReturnsOnlyAtEnd ==
    /\ (pc = "returned" => (ended /\ queue = <<>> /\ posted = <<>>))
    /\ (ended => (~Alive \/ ENABLED (live_preview \/ RunFunction)))

----------------------------------------------------------------------------
\* C11: when a setup step fails (context, node, topic, subscription or
\* window creation) the process terminates before the loop starts: no item
\* is ever taken from the subscription and no resize, show or set_image is
\* ever made, whatever arrives afterwards.
C11_SetupFailureIsFatal ==
    setup_error # "none"
      => /\ pc = "aborted"
         /\ taken = <<>>
         /\ logged = 0
         /\ posted = <<>>
         /\ calls = <<>>
         /\ ~window.visible
         /\ window.image.tag = "none"

\* The window could not be created while an item was already waiting in
\* the subscription.
C11_Witness ==
    /\ setup_error = "window"
    /\ pc = "aborted"
    /\ queue # <<>>

----------------------------------------------------------------------------
\* C12: each message is consumed exactly once by the decoder: while the
\* closure works on a message, to_image has been called on it at most one
\* time, and exactly one time by the moment its bitmap is handed to the
\* renderer (so the bitmap measured for the geometry is the one pushed).
C12_DecodedOnce ==
    /\ decodes <= 1
    /\ (pc \in {"geometry", "set_image", "set_image_wait"} => decodes = 1)

----------------------------------------------------------------------------
\* C13: decoding a raw "bgr8" message fails whenever its buffer is shorter
\* than height x step, padded rows (step > width x 3) included.
C13_ShortOfStepFails ==
    (/\ pc = "decoded"
     /\ msg.encoding = "bgr8"
     /\ Len(msg.data) < msg.height * msg.step)
      => img.tag = "panic"

----------------------------------------------------------------------------
\* The item of `items` that is the first to decode.
FirstDecoded(items) ==
    items[CHOOSE i \in 1..Len(items) :
            /\ Decodes(items[i])
            /\ \A j \in 1..(i - 1) : ~Decodes(items[j])]

\* floor(H * 1280 / W) in unbounded integers, as halves <<hi, lo>>.
ExactHeight(image) ==
    LET lo == (image.height % 65536) * 1280
        hi == (image.height \div 65536) * 1280 + lo \div 65536
    IN  << hi \div image.width,
           ((hi % image.width) * 65536 + (lo % 65536)) \div image.width >>

\* C14: for a first decoded frame of width W >= 1 and height H the surface
\* is resized to width 1280 and height exactly floor(H * 1280 / W), and
\* the 32-bit computation neither aborts nor wraps for any decoded frame.
C14_GeometryExact ==
    /\ ~(pc = "aborted" /\ img.tag = "img" /\ img.width >= 1)
    /\ (NResize = 1
          => LET f == to_image(FirstDecoded(taken).msg)
             IN  f.width >= 1 => calls[1].size = <<1280, ExactHeight(f)>>)

----------------------------------------------------------------------------
\* C15: the resize and the show of the first decoded frame take effect
\* before that frame's bitmap is set, in every interleaving of the loop
\* task and the context thread: no set_image is applied unless the resize
\* and the show were applied first, so a window holding an image is shown.
C15_InitBeforeSetImage ==
    /\ \A i \in 1..Len(calls) :
          calls[i].op = "set_image"
            => /\ i >= 3
               /\ calls[1].op = "set_inner_size"
               /\ calls[2].op = "set_visible"
    /\ (window.image.tag = "img"
          => window.visible /\ window.inner_size # <<>>)
    /\ ((~window.visible /\ \E i \in 1..Len(posted) : posted[i].fn = "set_image")
          => posted[1].fn = "init")

\* The loop has handed over the check and, without waiting for it, the
\* bitmap of the same frame: both wait on the context thread, nothing has
\* been applied to the window yet.
C15_Witness ==
    /\ pc = "set_image_wait"
    /\ Len(posted) = 2
    /\ posted[1].fn = "init"
    /\ posted[2].fn = "set_image"
    /\ calls = <<>>
    /\ ~window.visible

----------------------------------------------------------------------------
\* The frames the closure decoded, in the order it was called with them,
\* and the bitmaps the window was given, in the order it applied them.
DecodedFrames == SelectSeq(taken, Decodes)
BitmapsSet    == SelectSeq(calls, IsSetImage)

\* C16: frames are rendered strictly in arrival order.  While no item has
\* aborted the process, the bitmaps set on the window (all posted under
\* topic_name) are the decoded frames in the order they arrived, none
\* reordered, duplicated or left out, the frame in hand being the only one
\* that may still be missing; and the closure is not called with the next
\* item before the bitmap of the one before it has been applied.
C16_ArrivalOrder ==
    /\ [](pc # "aborted"
            => /\ Len(BitmapsSet) <= Len(DecodedFrames)
               /\ Len(DecodedFrames) <= Len(BitmapsSet) + 1
               /\ (pc \in {"await", "returned"}
                     => Len(BitmapsSet) = Len(DecodedFrames))
               /\ \A i \in 1..Len(BitmapsSet) :
                     BitmapsSet[i].image = to_image(DecodedFrames[i].msg)
               /\ \A i \in 1..Len(posted) :
                     posted[i].fn = "set_image"
                       => /\ posted[i].name = topic_name
                          /\ posted[i].image = to_image(msg)
                          /\ i = Len(posted))
    /\ [][ taken' # taken
             => /\ posted = <<>>
                /\ Len(BitmapsSet) = Len(DecodedFrames) ]_vars

\* Two different frames with a transport error between them have been
\* rendered, the earlier one first.
C16_Witness ==
    /\ pc = "await"
    /\ Len(taken) = 3
    /\ Decodes(taken[1])
    /\ taken[2].res = "Err"
    /\ Decodes(taken[3])
    /\ to_image(taken[1].msg) # to_image(taken[3].msg)
    /\ Len(BitmapsSet) = 2
    /\ BitmapsSet[1].image = to_image(taken[1].msg)
    /\ BitmapsSet[2].image = to_image(taken[3].msg)

----------------------------------------------------------------------------
\* C17: a frame that decoded never terminates the loop, whatever its
\* dimensions, a width of 0 included: the process is never aborted while
\* the closure handles an item whose message decoded to a bitmap.
C17_DecodedFrameNeverAborts ==
    pc = "aborted" => ~Decodes(taken[Len(taken)])
====
